---- MODULE Spec2Model ----
(***************************************************************************)
(* The raw entry API of IndexMap (src/src/map/core/raw_entry_v1.rs) over   *)
(* the core it drives: the Entry Store `entries` (a dense sequence of      *)
(* records (hash, key, value)) and the Index Table `indices` (an           *)
(* open-addressed table of positions into the Entry Store).                *)
(*                                                                         *)
(* Positions are zero based as in the code; `entries` is a TLA+ sequence,  *)
(* so the record at position p is entries[p + 1].                          *)
(* An Option is modelled as a set with at most one element: None is {},    *)
(* Some(x) is {x}.                                                         *)
(***************************************************************************)
EXTENDS Integers, Sequences, FiniteSets, TLC

VARIABLES
    entries,    \* IndexMapCore::entries : Vec<Bucket<K, V>>
    indices,    \* IndexMapCore::indices : RawTable<usize>
    panicked,   \* an operation panicked
    usizeBits,  \* the width of usize of the build (fixed after Init)
    self,       \* a borrowed &Slice<T>: its entries, [Bucket<T>]
    other       \* a second borrowed &Slice<T>

vars == <<entries, indices, panicked, usizeBits, self, other>>

(***************************************************************************)
(* Bounds of the model.                                                    *)
(***************************************************************************)
MaxLen == 3

\* The width of u64, scaled down, and the width of usize on a target whose
\* pointers are narrower than 64 bits, scaled alike.
U64Bits == 2

NarrowBits == 1

Keys == {"a", "b", "c"}

Values == {100, 200}

U64 == 0 .. (2 ^ U64Bits - 1)

\* The hashes callers hand to insert_hashed_nocheck: for every key one that is
\* not the key's hash, with the same tag as the key's hash or another.
NocheckHashes == {1, 2}

\* The container's hasher (S: BuildHasher), a fixed function of the key.
Hash(key) == CASE key = "a" -> 0 [] key = "b" -> 1 [] OTHER -> 2

\* Q::equivalent(key, k) for Q = K: equality of keys.
equivalent(key, k) == key = k

Min(S) == CHOOSE x \in S : \A y \in S : x <= y

Max2(x, y) == IF x >= y THEN x ELSE y

(***************************************************************************)
(* HashValue(hash as usize): the cast keeps the low usizeBits bits.        *)
(***************************************************************************)
HashValue(hash) == hash % (2 ^ usizeBits)

(***************************************************************************)
(* The Index Table: an open-addressed table of buckets.  A bucket is EMPTY *)
(* or FULL; a FULL bucket holds a position of the Entry Store and          *)
(* remembers the hash it was filed under.  A probe starts at the hash's    *)
(* home bucket and examines one group of buckets at a time; the tables of  *)
(* this model are no larger than a group, so a probe examines every bucket *)
(* once, in circular order from the home bucket, and a removal never       *)
(* leaves a tombstone.  Only the buckets whose tag (the top bit of the     *)
(* hash) equals the tag of the hash looked up are tested with eq.          *)
(***************************************************************************)
EmptyBucket == [ctrl |-> "EMPTY", hash |-> 0, pos |-> 0]

FullBucket(hash, pos) == [ctrl |-> "FULL", hash |-> hash, pos |-> pos]

\* A table of n buckets, bucket b at t[b + 1].
NewTable(n) == [b \in 1 .. n |-> EmptyBucket]

buckets(t) == Len(t)

FullBuckets(t) == {b \in 0 .. (Len(t) - 1) : t[b + 1].ctrl = "FULL"}

\* RawTable::len: the number of items.
items(t) == Cardinality(FullBuckets(t))

h2(hash) == hash \div (2 ^ (usizeBits - 1))

probe_seq(n, hash, i) == (hash + i) % n

bucket_mask_to_capacity(n) == n - 1

capacity_to_buckets(cap) ==
    IF cap < 2 THEN 2
    ELSE IF cap < 4 THEN 4
    ELSE IF cap < 8 THEN 8 ELSE 16

growth_left(t) == bucket_mask_to_capacity(buckets(t)) - items(t)

\* RawTable::find(hash, eq): the first bucket of the probe sequence whose tag
\* matches and whose position satisfies eq (given as the set of positions it
\* accepts).
find(t, hash, eq) ==
    LET n == buckets(t)
        hits == {i \in 0 .. (n - 1) :
                    LET s == t[probe_seq(n, hash, i) + 1]
                    IN  s.ctrl = "FULL" /\ h2(s.hash) = h2(hash) /\ s.pos \in eq}
    IN  IF hits = {} THEN {} ELSE {probe_seq(n, hash, Min(hits))}

\* RawTable::find_insert_slot(hash): the first EMPTY bucket.
find_insert_slot(t, hash) ==
    LET n == buckets(t)
        free == {i \in 0 .. (n - 1) : t[probe_seq(n, hash, i) + 1].ctrl # "FULL"}
    IN  probe_seq(n, hash, Min(free))

insert_in_slot(t, slot, hash, pos) == [t EXCEPT ![slot + 1] = FullBucket(hash, pos)]

\* Refile the items of t from bucket b on into nt, each under hasher(item).
RECURSIVE rehash_from(_, _, _, _)
rehash_from(t, nt, b, hasher) ==
    IF b >= buckets(t) THEN nt
    ELSE IF t[b + 1].ctrl # "FULL" THEN rehash_from(t, nt, b + 1, hasher)
    ELSE LET h == hasher[t[b + 1].pos + 1]
         IN  rehash_from(t, insert_in_slot(nt, find_insert_slot(nt, h), h, t[b + 1].pos),
                         b + 1, hasher)

\* RawTable::reserve_rehash(1, hasher): resize to the next size and refile
\* every item under the hash the hasher gives for it.
reserve_rehash(t, hasher) ==
    LET new_items == items(t) + 1
        full_capacity == bucket_mask_to_capacity(buckets(t))
    IN  rehash_from(t, NewTable(capacity_to_buckets(Max2(new_items, full_capacity + 1))),
                    0, hasher)

\* RawTable::insert(hash, value, hasher).
table_insert(t, hash, pos, hasher) ==
    IF growth_left(t) = 0
    THEN LET t2 == reserve_rehash(t, hasher)
         IN  insert_in_slot(t2, find_insert_slot(t2, hash), hash, pos)
    ELSE insert_in_slot(t, find_insert_slot(t, hash), hash, pos)

\* RawTable::remove(bucket).
table_remove(t, b) == [t EXCEPT ![b + 1] = EmptyBucket]

(***************************************************************************)
(* IndexMapCore.  A map value m is a record of the Entry Store, the Index  *)
(* Table and a flag telling that an operation panicked.                    *)
(***************************************************************************)
\* Bucket { hash, key, value }.  The field id is not the program's: it tells the
\* records apart by the order they were inserted in (0: not tracked).
Bucket(hash, key, value) == [hash |-> hash, key |-> key, value |-> value, id |-> 0]

\* Bucket::refs / Bucket::muts: the key and the value borrowed.
refs(bucket) == <<bucket.key, bucket.value>>

Positions(es) == 0 .. (Len(es) - 1)

\* get_hash(entries): the hasher handed to the Index Table, the cached hashes.
get_hash(es) == [i \in 1 .. Len(es) |-> es[i].hash]

panic(m) == [m EXCEPT !.panicked = TRUE]

\* The positions whose stored key the closure is_match accepts; is_match is
\* given as the set of keys it answers true for.
eq_is_match(es, is_match) == {i \in Positions(es) : es[i + 1].key \in is_match}

\* IndexMapCore::raw_entry(hash, is_match): Ok(raw bucket) as {b}, Err as {}.
raw_entry(m, hash, is_match) == find(m.indices, hash, eq_is_match(m.entries, is_match))

\* IndexMapCore::get_index_of(hash, key).
get_index_of(m, hash, key) ==
    {m.indices[b + 1].pos :
        b \in find(m.indices, hash,
                   {i \in Positions(m.entries) : equivalent(key, m.entries[i + 1].key)})}

\* RawTableEntry::remove_index: erase the raw bucket, yield its position.
remove_index(m, raw_bucket) ==
    [map |-> [m EXCEPT !.indices = table_remove(@, raw_bucket)],
     index |-> m.indices[raw_bucket + 1].pos]

\* update_index(table, hash, old, new): the bucket filed under hash that holds
\* old now holds new; "index not found" is a panic.
update_index(m, hash, old, new) ==
    LET b == find(m.indices, hash, {old})
    IN  IF b = {} THEN panic(m)
        ELSE [m EXCEPT !.indices =
                 [@ EXCEPT ![(CHOOSE x \in b : TRUE) + 1] = FullBucket(@.hash, new)]]

\* IndexMapCore::swap_remove_finish(index).
swap_remove_finish(m, index) ==
    LET es == m.entries
        n == Len(es)
    IN  IF index >= n THEN [map |-> panic(m), ret |-> <<>>]
        ELSE LET swapped == IF index = n - 1 THEN SubSeq(es, 1, n - 1)
                            ELSE SubSeq([es EXCEPT ![index + 1] = es[n]], 1, n - 1)
                 m1 == [m EXCEPT !.entries = swapped]
             IN  [map |-> IF index < Len(swapped)
                          THEN update_index(m1, swapped[index + 1].hash, n - 1, index)
                          ELSE m1,
                  ret |-> refs(es[index + 1])]

\* IndexMapCore::decrement_indices(start, end): every item of the Index Table
\* that targets a position in [start, end) targets the position before it.
decrement_indices(m, start, end) ==
    [m EXCEPT !.indices =
        [b \in 1 .. Len(@) |->
            IF @[b].ctrl = "FULL" /\ start <= @[b].pos /\ @[b].pos < end
            THEN FullBucket(@[b].hash, @[b].pos - 1) ELSE @[b]]]

\* IndexMapCore::shift_remove_finish(index).
shift_remove_finish(m, index) ==
    LET es == m.entries
        n == Len(es)
        m1 == decrement_indices(m, index + 1, n)
    IN  IF index >= n THEN [map |-> panic(m), ret |-> <<>>]
        ELSE [map |-> [m1 EXCEPT !.entries =
                          SubSeq(es, 1, index) \o SubSeq(es, index + 2, n)],
              ret |-> refs(es[index + 1])]

\* IndexMapCore::push_entry(hash, key, value).
push_entry(m, hash, key, value) ==
    [m EXCEPT !.entries = Append(@, Bucket(hash, key, value))]

\* IndexMap::hash(key): the hasher's u64 as a HashValue.
map_hash(key) == HashValue(Hash(key))

\* IndexMap::get_key_value(key).
get_key_value(m, key) ==
    {refs(m.entries[i + 1]) : i \in get_index_of(m, map_hash(key), key)}

(***************************************************************************)
(* RawEntryBuilder: the immutable builder.  Each lookup yields             *)
(* Option<(&K, &V)>.                                                       *)
(***************************************************************************)
RawEntryBuilder_from_key(m, key) == get_key_value(m, key)

\* Mutant: the hash handed in is ignored and the key hashed instead.
Mutant_from_key_hashed_nocheck_hashes_key(m, hash, key) == get_key_value(m, key)

RawEntryBuilder_from_key_hashed_nocheck(m, hash, key) ==
    LET hv == HashValue(hash)
    IN  {refs(m.entries[i + 1]) : i \in get_index_of(m, hv, key)}

\* Mutant: the closure is_match is not consulted, any stored key is accepted.
Mutant_from_hash_ignores_is_match(m, hash, is_match) ==
    LET hv == HashValue(hash)
        eq == eq_is_match(m.entries, Keys)
    IN  {refs(m.entries[m.indices[b + 1].pos + 1]) : b \in find(m.indices, hv, eq)}

RawEntryBuilder_from_hash(m, hash, is_match) ==
    LET hv == HashValue(hash)
        eq == eq_is_match(m.entries, is_match)
    IN  {refs(m.entries[m.indices[b + 1].pos + 1]) : b \in find(m.indices, hv, eq)}

(***************************************************************************)
(* RawEntryBuilderMut: the mutable builder.  Each lookup yields a          *)
(* RawEntryMut: Occupied (the raw bucket found) or Vacant.                 *)
(***************************************************************************)
Occupied(raw_bucket) == [tag |-> "Occupied", raw |-> raw_bucket]

Vacant == [tag |-> "Vacant"]

\* Mutant: the closure is_match is not consulted, the first record filed under
\* the tag of the hash is taken.
Mutant_from_hash_mut_ignores_is_match(m, hash, is_match) ==
    LET hv == HashValue(hash)
        found == raw_entry(m, hv, Keys)
    IN  IF found # {} THEN Occupied(CHOOSE b \in found : TRUE) ELSE Vacant

RawEntryBuilderMut_from_hash(m, hash, is_match) ==
    LET hv == HashValue(hash)
        found == raw_entry(m, hv, is_match)
    IN  IF found # {} THEN Occupied(CHOOSE b \in found : TRUE) ELSE Vacant

RawEntryBuilderMut_from_key_hashed_nocheck(m, hash, key) ==
    RawEntryBuilderMut_from_hash(m, hash, {k \in Keys : equivalent(key, k)})

RawEntryBuilderMut_from_key(m, key) ==
    RawEntryBuilderMut_from_key_hashed_nocheck(m, map_hash(key), key)

(***************************************************************************)
(* RawOccupiedEntryMut, given by its raw bucket.  An operation yields the  *)
(* map after it and what it returns.                                       *)
(***************************************************************************)
RawOccupiedEntryMut_index(m, raw) == m.indices[raw + 1].pos

RawOccupiedEntryMut_key(m, raw) == m.entries[RawOccupiedEntryMut_index(m, raw) + 1].key

RawOccupiedEntryMut_get(m, raw) == m.entries[RawOccupiedEntryMut_index(m, raw) + 1].value

\* Mutant: the value is stored and the new value returned, not the old one.
Mutant_insert_returns_new(m, raw, value) ==
    LET i == m.indices[raw + 1].pos
    IN  [map |-> [m EXCEPT !.entries[i + 1].value = value], ret |-> value]

RawOccupiedEntryMut_insert(m, raw, value) ==
    LET i == RawOccupiedEntryMut_index(m, raw)
    IN  [map |-> [m EXCEPT !.entries[i + 1].value = value],
         ret |-> m.entries[i + 1].value]

RawOccupiedEntryMut_insert_key(m, raw, key) ==
    LET i == RawOccupiedEntryMut_index(m, raw)
    IN  [map |-> [m EXCEPT !.entries[i + 1].key = key],
         ret |-> m.entries[i + 1].key]

\* Mutant: the pair is read and returned, and nothing is removed.
Mutant_swap_remove_entry_only_reads(m, raw) ==
    [map |-> m, ret |-> refs(m.entries[m.indices[raw + 1].pos + 1])]

\* Mutant: the raw bucket is not erased from the Index Table.
Mutant_swap_remove_entry_keeps_bucket(m, raw) ==
    swap_remove_finish(m, m.indices[raw + 1].pos)

\* Mutant: the entry is removed by shifting.
Mutant_swap_remove_entry_shifts(m, raw) ==
    LET r == remove_index(m, raw)
    IN  shift_remove_finish(r.map, r.index)

RawOccupiedEntryMut_swap_remove_entry(m, raw) ==
    LET r == remove_index(m, raw)
    IN  swap_remove_finish(r.map, r.index)

\* Mutant: the entry is removed by swapping the last one into its place.
Mutant_shift_remove_entry_swaps(m, raw) ==
    LET r == remove_index(m, raw)
    IN  swap_remove_finish(r.map, r.index)

RawOccupiedEntryMut_shift_remove_entry(m, raw) ==
    LET r == remove_index(m, raw)
    IN  shift_remove_finish(r.map, r.index)

RawOccupiedEntryMut_swap_remove(m, raw) ==
    LET r == RawOccupiedEntryMut_swap_remove_entry(m, raw)
    IN  [map |-> r.map, ret |-> IF r.map.panicked THEN <<>> ELSE r.ret[2]]

RawOccupiedEntryMut_shift_remove(m, raw) ==
    LET r == RawOccupiedEntryMut_shift_remove_entry(m, raw)
    IN  [map |-> r.map, ret |-> IF r.map.panicked THEN <<>> ELSE r.ret[2]]

(***************************************************************************)
(* RawVacantEntryMut.                                                      *)
(***************************************************************************)
\* Mutant: the number of buckets of the Index Table, not of its items.
Mutant_index_is_buckets(m) == buckets(m.indices)

RawVacantEntryMut_index(m) == items(m.indices)

\* Mutant: the record caches the hash of its key, not the hash it is filed under.
Mutant_insert_hashed_nocheck_caches_key_hash(m, hash, key, value) ==
    LET i == items(m.indices)
        hv == HashValue(hash)
        m1 == [m EXCEPT !.indices = table_insert(@, hv, i, get_hash(m.entries))]
        m2 == push_entry(m1, map_hash(key), key, value)
    IN  [map |-> m2, ret |-> refs(m2.entries[i + 1])]

RawVacantEntryMut_insert_hashed_nocheck(m, hash, key, value) ==
    LET i == RawVacantEntryMut_index(m)
        hv == HashValue(hash)
        m1 == [m EXCEPT !.indices = table_insert(@, hv, i, get_hash(m.entries))]
        m2 == push_entry(m1, hv, key, value)
    IN  IF i # Len(m1.entries) \/ i >= Len(m2.entries)
        THEN [map |-> panic(m2), ret |-> <<>>]
        ELSE [map |-> m2, ret |-> refs(m2.entries[i + 1])]

\* Mutant: the key is not fed to the hasher, whose result is then a constant.
Mutant_insert_does_not_hash_key(m, key, value) ==
    RawVacantEntryMut_insert_hashed_nocheck(m, 0, key, value)

RawVacantEntryMut_insert(m, key, value) ==
    RawVacantEntryMut_insert_hashed_nocheck(m, Hash(key), key, value)

(***************************************************************************)
(* The state machine.  A raw entry borrows the map for as long as it       *)
(* lives, so a step is one builder lookup followed by at most one          *)
(* operation on the entry it yields.                                       *)
(***************************************************************************)
Map == [entries |-> entries, indices |-> indices, panicked |-> panicked]

Becomes(m) ==
    /\ entries' = m.entries
    /\ indices' = m.indices
    /\ panicked' = m.panicked
    /\ UNCHANGED <<usizeBits, self, other>>

\* The builder calls: from_key(key), from_key_hashed_nocheck(hash, key) and
\* from_hash(hash, is_match).
Lookups ==
    [fn : {"from_key"}, hash : {0}, key : Keys, is_match : {{}}]
        \cup [fn : {"from_key_hashed_nocheck"}, hash : U64, key : Keys, is_match : {{}}]
        \cup [fn : {"from_hash"}, hash : U64, key : {"a"}, is_match : SUBSET Keys]

raw_entry_v1(m, l) ==
    CASE l.fn = "from_key" -> RawEntryBuilder_from_key(m, l.key)
      [] l.fn = "from_key_hashed_nocheck" ->
            RawEntryBuilder_from_key_hashed_nocheck(m, l.hash, l.key)
      [] OTHER -> RawEntryBuilder_from_hash(m, l.hash, l.is_match)

raw_entry_mut_v1(m, l) ==
    CASE l.fn = "from_key" -> RawEntryBuilderMut_from_key(m, l.key)
      [] l.fn = "from_key_hashed_nocheck" ->
            RawEntryBuilderMut_from_key_hashed_nocheck(m, l.hash, l.key)
      [] OTHER -> RawEntryBuilderMut_from_hash(m, l.hash, l.is_match)

Init ==
    /\ entries = <<>>
    /\ indices = NewTable(1)
    /\ panicked = FALSE
    /\ usizeBits \in {NarrowBits, U64Bits}
    /\ self = <<>>
    /\ other = <<>>

\* The raw entries the mutable builder can yield in this state.
Handles == {raw_entry_mut_v1(Map, l) : l \in Lookups}

OccupiedHandles == {e \in Handles : e.tag = "Occupied"}

\* map.raw_entry_v1().from_...(..): a lookup through the immutable builder.
Lookup ==
    /\ ~panicked
    /\ \E r \in {raw_entry_v1(Map, l) : l \in Lookups} : r \subseteq Keys \X Values
    /\ UNCHANGED vars

VacantInsert ==
    /\ ~panicked
    /\ Len(entries) < MaxLen
    /\ Vacant \in Handles
    /\ \E key \in Keys, value \in Values :
          Becomes(RawVacantEntryMut_insert(Map, key, value).map)

VacantInsertHashedNocheck ==
    /\ ~panicked
    /\ Len(entries) < MaxLen
    /\ Vacant \in Handles
    /\ \E hash \in NocheckHashes, key \in Keys, value \in Values :
          Becomes(RawVacantEntryMut_insert_hashed_nocheck(Map, hash, key, value).map)

OccupiedInsert ==
    /\ ~panicked
    /\ \E e \in Handles, value \in Values :
          /\ e.tag = "Occupied"
          /\ Becomes(RawOccupiedEntryMut_insert(Map, e.raw, value).map)

OccupiedInsertKey ==
    /\ ~panicked
    /\ \E e \in Handles, key \in Keys :
          /\ e.tag = "Occupied"
          /\ Becomes(RawOccupiedEntryMut_insert_key(Map, e.raw, key).map)

OccupiedSwapRemove ==
    /\ ~panicked
    /\ \E e \in Handles :
          /\ e.tag = "Occupied"
          /\ \E m \in {RawOccupiedEntryMut_swap_remove_entry(Map, e.raw).map,
                       RawOccupiedEntryMut_swap_remove(Map, e.raw).map} :
                Becomes(m)

OccupiedShiftRemove ==
    /\ ~panicked
    /\ \E e \in Handles :
          /\ e.tag = "Occupied"
          /\ \E m \in {RawOccupiedEntryMut_shift_remove_entry(Map, e.raw).map,
                       RawOccupiedEntryMut_shift_remove(Map, e.raw).map} :
                Becomes(m)

Next ==
    \/ Lookup
    \/ VacantInsert
    \/ VacantInsertHashedNocheck
    \/ OccupiedInsert
    \/ OccupiedInsertKey
    \/ OccupiedSwapRemove
    \/ OccupiedShiftRemove

Spec == Init /\ [][Next]_vars

(***************************************************************************)
(* The same operations with the records told apart by the order of their   *)
(* insertion: a record is given the next id when it is inserted, and the   *)
(* ids of the records that remain are kept dense (1 .. len, in the order   *)
(* of insertion).  The id travels with its record wherever an operation    *)
(* moves it.  This specification has the Vacant inserts, the Occupied      *)
(* value replacements and the shift removals, and no other mutation.       *)
(***************************************************************************)
Renumber(es) ==
    [i \in 1 .. Len(es) |->
        [es[i] EXCEPT !.id =
            IF @ = 0 THEN Len(es)
            ELSE 1 + Cardinality({j \in 1 .. Len(es) : 0 < es[j].id /\ es[j].id < @})]]

BecomesTracked(m) == Becomes([m EXCEPT !.entries = Renumber(@)])

OrderVacantInsert ==
    /\ ~panicked
    /\ Len(entries) < MaxLen
    /\ Vacant \in Handles
    /\ \E key \in Keys, value \in Values :
          BecomesTracked(RawVacantEntryMut_insert(Map, key, value).map)

OrderVacantInsertHashedNocheck ==
    /\ ~panicked
    /\ Len(entries) < MaxLen
    /\ Vacant \in Handles
    /\ \E hash \in NocheckHashes, key \in Keys, value \in Values :
          BecomesTracked(
              RawVacantEntryMut_insert_hashed_nocheck(Map, hash, key, value).map)

OrderOccupiedInsert ==
    /\ ~panicked
    /\ \E e \in OccupiedHandles, value \in Values :
          BecomesTracked(RawOccupiedEntryMut_insert(Map, e.raw, value).map)

OrderShiftRemove ==
    /\ ~panicked
    /\ \E e \in OccupiedHandles :
          \E m \in {RawOccupiedEntryMut_shift_remove_entry(Map, e.raw).map,
                    RawOccupiedEntryMut_shift_remove(Map, e.raw).map} :
              BecomesTracked(m)

NextOrder ==
    \/ Lookup
    \/ OrderVacantInsert
    \/ OrderVacantInsertHashedNocheck
    \/ OrderOccupiedInsert
    \/ OrderShiftRemove

SpecOrder == Init /\ [][NextOrder]_vars

(***************************************************************************)
(* The raw entry API used as documented: an entry is looked up for a key   *)
(* with the key's own hash and equivalence; a Vacant entry takes that key, *)
(* under its hash; an Occupied entry has its value replaced or is removed; *)
(* no key is altered.                                                      *)
(***************************************************************************)
\* The lookups of the mutable builder for key, by its hash and equivalence.
ProperLookups(key) ==
    {l \in Lookups :
        \/ l.fn = "from_key" /\ l.key = key
        \/ l.fn = "from_key_hashed_nocheck" /\ l.hash = Hash(key) /\ l.key = key
        \/ l.fn = "from_hash" /\ l.hash = Hash(key)
              /\ l.is_match = {k \in Keys : equivalent(key, k)}}

ProperVacantInsert ==
    /\ ~panicked
    /\ Len(entries) < MaxLen
    /\ \E key \in Keys, value \in Values :
          /\ \E l \in ProperLookups(key) : raw_entry_mut_v1(Map, l) = Vacant
          /\ \/ Becomes(RawVacantEntryMut_insert(Map, key, value).map)
             \/ Becomes(RawVacantEntryMut_insert_hashed_nocheck(
                            Map, Hash(key), key, value).map)

ProperOccupiedInsert ==
    /\ ~panicked
    /\ \E key \in Keys, value \in Values : \E l \in ProperLookups(key) :
          LET e == raw_entry_mut_v1(Map, l)
          IN  /\ e.tag = "Occupied"
              /\ Becomes(RawOccupiedEntryMut_insert(Map, e.raw, value).map)

ProperRemove ==
    /\ ~panicked
    /\ \E key \in Keys : \E l \in ProperLookups(key) :
          LET e == raw_entry_mut_v1(Map, l)
          IN  /\ e.tag = "Occupied"
              /\ \E m \in {RawOccupiedEntryMut_swap_remove_entry(Map, e.raw).map,
                           RawOccupiedEntryMut_swap_remove(Map, e.raw).map,
                           RawOccupiedEntryMut_shift_remove_entry(Map, e.raw).map,
                           RawOccupiedEntryMut_shift_remove(Map, e.raw).map} :
                    Becomes(m)

NextProper ==
    \/ Lookup
    \/ ProperVacantInsert
    \/ ProperOccupiedInsert
    \/ ProperRemove

SpecProper == Init /\ [][NextProper]_vars

(***************************************************************************)
(* The slice view of a set (set/slice.rs).  An IndexSet<T> is a map from T *)
(* to the unit value, and a Slice<T> is a borrowed run of its Entry Store; *)
(* it is given by the sequence of the Bucket<T> it borrows.                *)
(***************************************************************************)
MaxSliceLen == 3

MaxIndex == 4

\* The value of a Bucket<T>, ().
Unit == 0

NewMap == [entries |-> <<>>, indices |-> NewTable(1), panicked |-> FALSE]

\* IndexSet::insert(value): stored at the end unless an equal value is stored.
IndexSet_insert(m, value) ==
    IF RawEntryBuilderMut_from_key(m, value) = Vacant
    THEN RawVacantEntryMut_insert(m, value, Unit).map
    ELSE m

\* IndexSet::from_iter: the values inserted in the order given.
RECURSIVE IndexSet_from_iter(_)
IndexSet_from_iter(values) ==
    IF values = <<>> THEN NewMap
    ELSE IndexSet_insert(IndexSet_from_iter(SubSeq(values, 1, Len(values) - 1)),
                         values[Len(values)])

\* IndexSet::contains(value).
IndexSet_contains(m, value) == get_index_of(m, map_hash(value), value) # {}

\* impl PartialEq for IndexSet: the same length and every value of the one
\* contained in the other.
IndexSet_eq(m, n) ==
    /\ Len(m.entries) = Len(n.entries)
    /\ \A i \in 1 .. Len(m.entries) : IndexSet_contains(n, m.entries[i].key)

\* IndexSet::as_slice.
as_slice(m) == m.entries

Slice_len(s) == Len(s)

\* Slice::iter: the values (Bucket::key_ref) in storage order.
Slice_iter(s) == [i \in 1 .. Len(s) |-> s[i].key]

\* Iterator::eq: the two iterators advanced together; equal if they end
\* together and every pair of items is equal.
RECURSIVE iter_eq(_, _)
iter_eq(a, b) ==
    IF a = <<>> THEN b = <<>>
    ELSE IF b = <<>> THEN FALSE
    ELSE Head(a) = Head(b) /\ iter_eq(Tail(a), Tail(b))

\* Mutant: the values compared as sets, the order forgotten.
Mutant_eq_ignores_order(s, o) ==
    /\ Slice_len(s) = Slice_len(o)
    /\ {s[i].key : i \in 1 .. Len(s)} = {o[i].key : i \in 1 .. Len(o)}

\* impl PartialEq for Slice<T>.
Slice_eq(s, o) == Slice_len(s) = Slice_len(o) /\ iter_eq(Slice_iter(s), Slice_iter(o))

\* Mutant: the index is clamped to the length instead of the panic.
Mutant_split_at_clamps(s, index) ==
    LET mid == Min({index, Len(s)})
    IN  [panicked |-> FALSE,
         first |-> SubSeq(s, 1, mid),
         second |-> SubSeq(s, mid + 1, Len(s))]

\* Slice::split_at(index): [T]::split_at panics if index > len.
Slice_split_at(s, index) ==
    IF index > Len(s)
    THEN [panicked |-> TRUE, first |-> <<>>, second |-> <<>>]
    ELSE [panicked |-> FALSE,
          first |-> SubSeq(s, 1, index),
          second |-> SubSeq(s, index + 1, Len(s))]

\* The orders in which up to MaxSliceLen distinct values can be inserted.
InsertionOrders ==
    {o \in UNION {[1 .. n -> Keys] : n \in 0 .. MaxSliceLen} :
        \A i \in 1 .. Len(o), j \in 1 .. Len(o) : i # j => o[i] # o[j]}

InitSlice ==
    /\ entries = <<>>
    /\ indices = NewTable(1)
    /\ panicked = FALSE
    /\ usizeBits \in {NarrowBits, U64Bits}
    /\ \E a \in InsertionOrders, b \in InsertionOrders :
          /\ self = as_slice(IndexSet_from_iter(a))
          /\ other = as_slice(IndexSet_from_iter(b))

\* self == other: the comparison borrows both slices and changes neither.
SliceEq ==
    /\ ~panicked
    /\ Slice_eq(self, other) \in BOOLEAN
    /\ UNCHANGED vars

\* let (first, second) = slice.split_at(index), of either slice; the two
\* halves are the slices held from then on.
SliceSplitAt ==
    /\ ~panicked
    /\ \E s \in {self, other}, index \in 0 .. MaxIndex :
          LET r == Slice_split_at(s, index)
          IN  IF r.panicked
              THEN panicked' = TRUE /\ UNCHANGED <<self, other>>
              ELSE self' = r.first /\ other' = r.second /\ UNCHANGED panicked
    /\ UNCHANGED <<entries, indices, usizeBits>>

NextSlice ==
    \/ SliceEq
    \/ SliceSplitAt

SpecSlice == InitSlice /\ [][NextSlice]_vars

(***************************************************************************)
(* C1.  After every raw-entry operation, whatever hashes the callers       *)
(* passed and whatever keys they replaced, the Index Table and the Entry   *)
(* Store are in bijection: the Index Table holds exactly len items, every  *)
(* position below len is the target of exactly one of them, and none       *)
(* targets a position at or beyond len.                                    *)
(***************************************************************************)
C1_Bijection ==
    /\ items(indices) = Len(entries)
    /\ \A p \in Positions(entries) :
          Cardinality({b \in FullBuckets(indices) : indices[b + 1].pos = p}) = 1
    /\ \A b \in FullBuckets(indices) : indices[b + 1].pos < Len(entries)

\* A record filed under a hash that is not its key's, in a table that grew to
\* four buckets and has lost all but one of its items since.
C1_Witness ==
    /\ Len(entries) = 1
    /\ buckets(indices) = 4
    /\ entries[1].hash # map_hash(entries[1].key)
    /\ C1_Bijection

(***************************************************************************)
(* C2.  Every item of the Index Table is filed under the hash its record   *)
(* caches: for an item (h, p), entries[p].hash = h; this also after        *)
(* insert_hashed_nocheck with a hash that is not the key's and after a key *)
(* was replaced.                                                           *)
(***************************************************************************)
C2_FiledUnderCachedHash ==
    \A b \in FullBuckets(indices) :
        LET s == indices[b + 1]
        IN  /\ s.pos \in Positions(entries)
            /\ entries[s.pos + 1].hash = s.hash

\* Three records, one of them cached and filed under a hash that is not its
\* key's, in a table that was resized and refiled.
C2_Witness ==
    /\ Len(entries) = 3
    /\ buckets(indices) = 4
    /\ \E b \in FullBuckets(indices) :
          LET s == indices[b + 1]
          IN  /\ entries[s.pos + 1].hash = s.hash
              /\ s.hash # map_hash(entries[s.pos + 1].key)

(***************************************************************************)
(* C3.  After any sequence of Vacant inserts, Occupied value replacements  *)
(* and shift removals, the records that remain are in the Entry Store in   *)
(* the order they were inserted in: of two records, the one inserted       *)
(* earlier is at the smaller position.                                     *)
(***************************************************************************)
C3_InsertionOrder ==
    \A i \in 1 .. Len(entries), j \in 1 .. Len(entries) :
        i < j => 0 < entries[i].id /\ entries[i].id < entries[j].id

\* Three records in the order of their insertion in a table of four buckets,
\* the first of which a shift removal takes out: the other two stay in order.
C3_Witness ==
    /\ Len(entries) = 3
    /\ C3_InsertionOrder
    /\ \E e \in OccupiedHandles :
          /\ RawOccupiedEntryMut_index(Map, e.raw) = 0
          /\ Renumber(RawOccupiedEntryMut_shift_remove_entry(Map, e.raw).map.entries)
                = << [entries[2] EXCEPT !.id = 1], [entries[3] EXCEPT !.id = 2] >>

(***************************************************************************)
(* C4.  swap_remove_entry on the Occupied entry at position p of a map of  *)
(* length n returns the (key, value) stored at p and leaves length n - 1;  *)
(* if p is not the last position, the record formerly last is now at p and *)
(* the item of the Index Table that targeted n - 1 targets p; every record *)
(* at another position is where and what it was.                           *)
(***************************************************************************)
C4_SwapRemoveEntry ==
    \A e \in OccupiedHandles :
        LET p == RawOccupiedEntryMut_index(Map, e.raw)
            n == Len(entries)
            r == RawOccupiedEntryMut_swap_remove_entry(Map, e.raw)
            es == r.map.entries
        IN  /\ ~r.map.panicked
            /\ r.ret = <<entries[p + 1].key, entries[p + 1].value>>
            /\ Len(es) = n - 1
            /\ p # n - 1 =>
                  /\ es[p + 1] = entries[n]
                  /\ \A b \in FullBuckets(indices) :
                        indices[b + 1].pos = n - 1 =>
                            /\ r.map.indices[b + 1].ctrl = "FULL"
                            /\ r.map.indices[b + 1].pos = p
            /\ \A q \in Positions(es) : q # p => es[q + 1] = entries[q + 1]

\* Three different records, the first of them removed: the last takes its place.
C4_Witness ==
    /\ Len(entries) = 3
    /\ entries[1] # entries[2] /\ entries[2] # entries[3] /\ entries[1] # entries[3]
    /\ \E e \in OccupiedHandles :
          /\ RawOccupiedEntryMut_index(Map, e.raw) = 0
          /\ RawOccupiedEntryMut_swap_remove_entry(Map, e.raw).map.entries
                = <<entries[3], entries[2]>>

(***************************************************************************)
(* C5.  shift_remove_entry on the Occupied entry at position p of a map of *)
(* length n returns the (key, value) stored at p and leaves length n - 1;  *)
(* every record at a position q > p is now at q - 1, and so is the target  *)
(* of its item of the Index Table; every record at a position q < p is     *)
(* unchanged; the survivors keep their relative order.                     *)
(***************************************************************************)
C5_ShiftRemoveEntry ==
    \A e \in OccupiedHandles :
        LET p == RawOccupiedEntryMut_index(Map, e.raw)
            n == Len(entries)
            r == RawOccupiedEntryMut_shift_remove_entry(Map, e.raw)
            es == r.map.entries
        IN  /\ ~r.map.panicked
            /\ r.ret = <<entries[p + 1].key, entries[p + 1].value>>
            /\ Len(es) = n - 1
            /\ \A q \in (p + 1) .. (n - 1) :
                  /\ es[q] = entries[q + 1]
                  /\ \A b \in FullBuckets(indices) :
                        indices[b + 1].pos = q =>
                            /\ r.map.indices[b + 1].ctrl = "FULL"
                            /\ r.map.indices[b + 1].pos = q - 1
            /\ \A q \in 0 .. (p - 1) :
                  /\ es[q + 1] = entries[q + 1]
                  /\ \A b \in FullBuckets(indices) :
                        indices[b + 1].pos = q => r.map.indices[b + 1] = indices[b + 1]
            /\ es = SubSeq(entries, 1, p) \o SubSeq(entries, p + 2, n)

\* Three different records, the first of them removed: the others move down.
C5_Witness ==
    /\ Len(entries) = 3
    /\ entries[1] # entries[2] /\ entries[2] # entries[3] /\ entries[1] # entries[3]
    /\ \E e \in OccupiedHandles :
          /\ RawOccupiedEntryMut_index(Map, e.raw) = 0
          /\ RawOccupiedEntryMut_shift_remove_entry(Map, e.raw).map.entries
                = <<entries[2], entries[3]>>

(***************************************************************************)
(* C6.  As claimed: after swap_remove_entry or shift_remove_entry on an    *)
(* Occupied entry, a raw lookup of the removed key (from_key, or           *)
(* from_key_hashed_nocheck and from_hash with the key's hash) yields None. *)
(* This fails when another record holds an equivalent key.                 *)
(***************************************************************************)
RemovedKeyNotFound(m, key) ==
    /\ RawEntryBuilder_from_key(m, key) = {}
    /\ RawEntryBuilder_from_key_hashed_nocheck(m, Hash(key), key) = {}
    /\ RawEntryBuilder_from_hash(m, Hash(key), {k \in Keys : equivalent(key, k)}) = {}

C6_Original_RemovedKeyNotFound ==
    \A e \in OccupiedHandles :
        LET key == RawOccupiedEntryMut_key(Map, e.raw)
        IN  /\ RemovedKeyNotFound(
                   RawOccupiedEntryMut_swap_remove_entry(Map, e.raw).map, key)
            /\ RemovedKeyNotFound(
                   RawOccupiedEntryMut_shift_remove_entry(Map, e.raw).map, key)

\* The key of the record at position p is equivalent to no other record's key.
OnlyRecordOfItsKey(es, p) ==
    \A q \in Positions(es) : q # p => ~equivalent(es[p + 1].key, es[q + 1].key)

(***************************************************************************)
(* C6, amended.  After swap_remove_entry or shift_remove_entry on an       *)
(* Occupied entry whose key is equivalent to the key of no other record, a *)
(* raw lookup of the removed key yields None.                              *)
(***************************************************************************)
C6_RemovedKeyNotFoundIfOnly ==
    \A e \in OccupiedHandles :
        LET key == RawOccupiedEntryMut_key(Map, e.raw)
        IN  OnlyRecordOfItsKey(entries, RawOccupiedEntryMut_index(Map, e.raw)) =>
                /\ RemovedKeyNotFound(
                       RawOccupiedEntryMut_swap_remove_entry(Map, e.raw).map, key)
                /\ RemovedKeyNotFound(
                       RawOccupiedEntryMut_shift_remove_entry(Map, e.raw).map, key)

\* Three records of three keys; "a", which from_key finds, is removed.
C6_Witness ==
    /\ Len(entries) = 3
    /\ RawEntryBuilder_from_key(Map, "a") # {}
    /\ LET e == RawEntryBuilderMut_from_key(Map, "a")
       IN  /\ e.tag = "Occupied"
           /\ OnlyRecordOfItsKey(entries, RawOccupiedEntryMut_index(Map, e.raw))
           /\ RemovedKeyNotFound(
                  RawOccupiedEntryMut_swap_remove_entry(Map, e.raw).map, "a")

(***************************************************************************)
(* C7.  As claimed: for all keys k and values v, after insert(k, v) on a   *)
(* Vacant entry, from_key(k) yields Some((k, v)).  This fails when a       *)
(* record with an equivalent key is stored already (the Vacant entry came  *)
(* from a lookup by another hash or predicate): the lookup may find it.    *)
(***************************************************************************)
C7_Original_InsertLookupRoundTrip ==
    Vacant \in Handles =>
        \A key \in Keys, value \in Values :
            RawEntryBuilder_from_key(RawVacantEntryMut_insert(Map, key, value).map, key)
                = {<<key, value>>}

(***************************************************************************)
(* C7, amended.  For all keys k equivalent to no stored key and all values *)
(* v, after insert(k, v) on a Vacant entry, from_key(k) yields             *)
(* Some((k, v)).                                                           *)
(***************************************************************************)
C7_InsertLookupRoundTripIfNew ==
    Vacant \in Handles =>
        \A key \in Keys, value \in Values :
            (\A q \in Positions(entries) : ~equivalent(key, entries[q + 1].key)) =>
                RawEntryBuilder_from_key(
                    RawVacantEntryMut_insert(Map, key, value).map, key)
                    = {<<key, value>>}

\* "c" is not stored, from_key yields a Vacant entry for it, and the table is
\* full: the insertion resizes it, and the lookup finds the new record.
C7_Witness ==
    /\ Len(entries) = 1
    /\ growth_left(indices) = 0
    /\ \A q \in Positions(entries) : ~equivalent("c", entries[q + 1].key)
    /\ RawEntryBuilderMut_from_key(Map, "c") = Vacant
    /\ RawEntryBuilder_from_key(Map, "c") = {}
    /\ RawEntryBuilder_from_key(RawVacantEntryMut_insert(Map, "c", 200).map, "c")
          = {<<"c", 200>>}

(***************************************************************************)
(* C8.  As claimed: for every stored key and every hash that is not the    *)
(* key's, from_key_hashed_nocheck(hash, key) yields None and the mutable   *)
(* builder a Vacant entry.  This fails when the hash collides with the     *)
(* key's: the same HashValue after the cast to usize, or the same tag.     *)
(***************************************************************************)
C8_Original_WrongHashMisses ==
    \A p \in Positions(entries), wrong \in U64 :
        LET key == entries[p + 1].key
        IN  wrong # Hash(key) =>
                /\ RawEntryBuilder_from_key_hashed_nocheck(Map, wrong, key) = {}
                /\ RawEntryBuilderMut_from_key_hashed_nocheck(Map, wrong, key) = Vacant

(***************************************************************************)
(* C8, amended.  For every stored key and every hash that is not the       *)
(* key's, from_key_hashed_nocheck(hash, key) does not panic and yields     *)
(* None or a record whose key is equivalent to the key, the mutable        *)
(* builder yields Vacant exactly when the immutable one yields None, and   *)
(* both yield None and Vacant when no record with an equivalent key is     *)
(* filed under a hash whose tag is that of the hash handed in.             *)
(***************************************************************************)
C8_WrongHashMissesUnlessCollision ==
    \A p \in Positions(entries), wrong \in U64 :
        LET key == entries[p + 1].key
            found == RawEntryBuilder_from_key_hashed_nocheck(Map, wrong, key)
            entry == RawEntryBuilderMut_from_key_hashed_nocheck(Map, wrong, key)
            same_key == {q \in Positions(entries) : equivalent(key, entries[q + 1].key)}
        IN  wrong # Hash(key) =>
                /\ ~panicked
                /\ found \subseteq {refs(entries[q + 1]) : q \in same_key}
                /\ (found = {}) <=> (entry = Vacant)
                /\ (\A q \in same_key : h2(entries[q + 1].hash) # h2(HashValue(wrong)))
                      => found = {}

\* A stored key that one wrong hash misses and another wrong hash finds.
C8_Witness ==
    \E p \in Positions(entries), miss \in U64, hit \in U64 :
        LET key == entries[p + 1].key
        IN  /\ miss # Hash(key) /\ hit # Hash(key)
            /\ entries[p + 1].hash = map_hash(key)
            /\ RawEntryBuilder_from_key(Map, key) = {refs(entries[p + 1])}
            /\ RawEntryBuilder_from_key_hashed_nocheck(Map, miss, key) = {}
            /\ RawEntryBuilder_from_key_hashed_nocheck(Map, hit, key)
                  = {refs(entries[p + 1])}

(***************************************************************************)
(* C9.  A Vacant entry's index() is the length of the Entry Store; insert  *)
(* and insert_hashed_nocheck store the new record at that position, make   *)
(* the map one longer, return the key and value just stored and leave      *)
(* every record that was there where and what it was, also when the        *)
(* Index Table is resized and refiled.                                     *)
(***************************************************************************)
C9_VacantInsertAppends ==
    Vacant \in Handles =>
        LET i == RawVacantEntryMut_index(Map)
            appended(r, key, value) ==
                /\ ~r.map.panicked
                /\ Len(r.map.entries) = Len(entries) + 1
                /\ r.map.entries[i + 1].key = key
                /\ r.map.entries[i + 1].value = value
                /\ r.ret = <<key, value>>
                /\ \A q \in Positions(entries) : r.map.entries[q + 1] = entries[q + 1]
        IN  /\ i = Len(entries)
            /\ \A key \in Keys, value \in Values :
                  /\ appended(RawVacantEntryMut_insert(Map, key, value), key, value)
                  /\ \A hash \in U64 :
                        appended(RawVacantEntryMut_insert_hashed_nocheck(
                                     Map, hash, key, value), key, value)

\* An insertion into a full table of two buckets: the table is resized to four
\* buckets and its item refiled.
C9_Witness ==
    /\ Vacant \in Handles
    /\ Len(entries) = 1
    /\ buckets(indices) = 2
    /\ growth_left(indices) = 0
    /\ LET r == RawVacantEntryMut_insert(Map, "c", 200)
       IN  /\ buckets(r.map.indices) = 4
           /\ r.map.entries = Append(entries, Bucket(map_hash("c"), "c", 200))

(***************************************************************************)
(* C10.  RawOccupiedEntryMut::insert(value) returns the value stored at    *)
(* the entry's position and stores the new one there; the length, the      *)
(* order, every key, every cached hash, the Index Table and the values of  *)
(* the other records are unchanged.                                        *)
(***************************************************************************)
C10_OccupiedInsertFrame ==
    \A e \in OccupiedHandles, value \in Values :
        LET i == RawOccupiedEntryMut_index(Map, e.raw)
            r == RawOccupiedEntryMut_insert(Map, e.raw, value)
            es == r.map.entries
        IN  /\ ~r.map.panicked
            /\ r.ret = entries[i + 1].value
            /\ Len(es) = Len(entries)
            /\ es[i + 1].value = value
            /\ \A q \in Positions(entries) :
                  /\ es[q + 1].key = entries[q + 1].key
                  /\ es[q + 1].hash = entries[q + 1].hash
                  /\ q # i => es[q + 1].value = entries[q + 1].value
            /\ r.map.indices = indices

\* The value of the first of three records is replaced by another value.
C10_Witness ==
    /\ Len(entries) = 3
    /\ \E e \in OccupiedHandles :
          /\ RawOccupiedEntryMut_index(Map, e.raw) = 0
          /\ entries[1].value = 100
          /\ RawOccupiedEntryMut_insert(Map, e.raw, 200).ret = 100
          /\ RawOccupiedEntryMut_insert(Map, e.raw, 200).map.entries[1].value = 200

(***************************************************************************)
(* C11.  As claimed: for every key k, stored or not, with the hash the     *)
(* map's hasher gives k, from_key(k), from_hash(hash, |q| q == k) and      *)
(* from_key_hashed_nocheck(hash, k) yield the same result, that of the     *)
(* ordinary lookup get_key_value(k): Some((k, v)) when k is stored with    *)
(* the value v, None otherwise.  This fails for a key whose record was     *)
(* filed under another hash, or that is stored twice.                      *)
(***************************************************************************)
LookupsAgree(key) ==
    LET found == RawEntryBuilder_from_key(Map, key)
    IN  /\ found = get_key_value(Map, key)
        /\ RawEntryBuilder_from_hash(Map, Hash(key), {k \in Keys : equivalent(key, k)})
              = found
        /\ RawEntryBuilder_from_key_hashed_nocheck(Map, Hash(key), key) = found

LookupIsTheStored(key) ==
    LET found == RawEntryBuilder_from_key(Map, key)
        stored == {p \in Positions(entries) : equivalent(key, entries[p + 1].key)}
    IN  /\ \A p \in stored : found = {refs(entries[p + 1])}
        /\ stored = {} => found = {}

StoredOnceUnderItsHash(key) ==
    \A p \in Positions(entries), q \in Positions(entries) :
        equivalent(key, entries[p + 1].key) /\ equivalent(key, entries[q + 1].key) =>
            p = q /\ entries[p + 1].hash = map_hash(key)

C12_SliceEqOrderSensitive ==
    LET values(s) == {s[i].key : i \in 1 .. Len(s)}
        set_of(s) == IndexSet_from_iter(Slice_iter(s))
    IN  /\ Slice_eq(self, other) <=>
              /\ Len(self) = Len(other)
              /\ \A i \in 1 .. Len(self) : self[i].key = other[i].key
        /\ values(self) = values(other) =>
              /\ IndexSet_eq(set_of(self), set_of(other))
              /\ (\E i \in 1 .. Len(self) : self[i].key # other[i].key)
                    => ~Slice_eq(self, other) /\ ~Slice_eq(other, self)

\* The slices of the sets built from "a", "b" and from "b", "a": unequal as
\* slices, equal as sets.
C12_Witness ==
    /\ Slice_iter(self) = <<"a", "b">>
    /\ Slice_iter(other) = <<"b", "a">>
    /\ self = as_slice(IndexSet_from_iter(<<"a", "b">>))
    /\ ~Slice_eq(self, other)
    /\ Slice_eq(self, self)
    /\ IndexSet_eq(IndexSet_from_iter(<<"a", "b">>), IndexSet_from_iter(<<"b", "a">>))

(***************************************************************************)
(* C13.  Slice::split_at(index) panics exactly when index > len; for every *)
(* index <= len it yields (first, second), first the values at [0, index)  *)
(* and second the values at [index, len), in their order, and the slice    *)
(* split is what it was: first followed by second.                         *)
(***************************************************************************)
C13_SplitAtPanicsIffBeyond ==
    \A s \in {self, other}, index \in 0 .. MaxIndex :
        LET r == Slice_split_at(s, index)
        IN  /\ r.panicked <=> index > Slice_len(s)
            /\ index <= Slice_len(s) =>
                  /\ Slice_len(r.first) = index
                  /\ \A i \in 1 .. index : r.first[i] = s[i]
                  /\ Slice_len(r.second) = Slice_len(s) - index
                  /\ \A j \in 1 .. (Slice_len(s) - index) : r.second[j] = s[index + j]
                  /\ r.first \o r.second = s

\* A slice of three values: split at 1 into one value and two, split at 3 into
\* all and none, and a panic at 4.
C13_Witness ==
    /\ Slice_len(self) = 3
    /\ Slice_split_at(self, 1).first = <<self[1]>>
    /\ Slice_split_at(self, 1).second = <<self[2], self[3]>>
    /\ Slice_split_at(self, 3).second = <<>>
    /\ ~Slice_split_at(self, 3).panicked
    /\ Slice_split_at(self, 4).panicked

(***************************************************************************)
(* C14.  When every Vacant entry comes from a lookup of a key by its own   *)
(* hash and equivalence and takes that key under its hash, and no key is   *)
(* altered, no two records hold equivalent keys, and the mutable builder   *)
(* yields an Occupied entry, of a record of that key, for exactly the keys *)
(* that are stored.                                                        *)
(***************************************************************************)
C14_ProperUseNoDuplicates ==
    /\ \A p \in Positions(entries), q \in Positions(entries) :
          equivalent(entries[p + 1].key, entries[q + 1].key) => p = q
    /\ \A key \in Keys : \A l \in ProperLookups(key) :
          LET e == raw_entry_mut_v1(Map, l)
          IN  /\ e.tag = "Occupied" <=>
                    \E p \in Positions(entries) : equivalent(key, entries[p + 1].key)
              /\ e.tag = "Occupied" =>
                    equivalent(key, RawOccupiedEntryMut_key(Map, e.raw))

\* "c" alone in a table of four buckets, after two inserts and a removal: the
\* builder yields Occupied for "c" and Vacant for "a" and "b".
C14_Witness ==
    /\ Len(entries) = 1
    /\ buckets(indices) = 4
    /\ entries[1].key = "c"
    /\ RawEntryBuilderMut_from_key(Map, "c").tag = "Occupied"
    /\ RawEntryBuilderMut_from_key(Map, "a") = Vacant
    /\ RawEntryBuilderMut_from_key(Map, "b") = Vacant

(***************************************************************************)
(* C15.  In every state of the map, for every hash and predicate, the      *)
(* mutable builder's from_hash yields an Occupied entry exactly when the   *)
(* immutable builder's from_hash yields Some, and then the entry's         *)
(* index(), key() and get() are a position of the Entry Store and the key  *)
(* and value stored there, the ones the immutable lookup returned.  Both   *)
(* lookups are functions of the state: they read the Entry Store and the   *)
(* Index Table and assign neither.                                         *)
(***************************************************************************)
C15_BuildersAgree ==
    \A hash \in U64, is_match \in SUBSET Keys :
        LET e == RawEntryBuilderMut_from_hash(Map, hash, is_match)
            found == RawEntryBuilder_from_hash(Map, hash, is_match)
        IN  /\ e.tag = "Occupied" <=> found # {}
            /\ e.tag = "Vacant" <=> found = {}
            /\ e.tag = "Occupied" =>
                  LET i == RawOccupiedEntryMut_index(Map, e.raw)
                  IN  /\ i \in Positions(entries)
                      /\ found = {refs(entries[i + 1])}
                      /\ found = {<<RawOccupiedEntryMut_key(Map, e.raw),
                                    RawOccupiedEntryMut_get(Map, e.raw)>>}
                      /\ RawOccupiedEntryMut_key(Map, e.raw) \in is_match

\* Three records whose hashes share a tag: with the hash of "b" and the
\* predicate that accepts "b" alone both builders find the record at position
\* 1, passing over the record before it; with a predicate that accepts nothing
\* the one yields Vacant and the other None.
C15_Witness ==
    /\ Len(entries) = 3
    /\ entries[2].key = "b"
    /\ h2(entries[1].hash) = h2(entries[2].hash)
    /\ LET e == RawEntryBuilderMut_from_hash(Map, Hash("b"), {"b"})
       IN  /\ e.tag = "Occupied"
           /\ RawOccupiedEntryMut_index(Map, e.raw) = 1
           /\ RawEntryBuilder_from_hash(Map, Hash("b"), {"b"})
                 = {<<"b", entries[2].value>>}
    /\ RawEntryBuilderMut_from_hash(Map, Hash("b"), {}) = Vacant
    /\ RawEntryBuilder_from_hash(Map, Hash("b"), {}) = {}

\* No operation of the model panics.
NoPanic == ~panicked

====
